---- MODULE Spec2Model ----
(***************************************************************************)
(* Model of the scoring pipeline of the BRA AI compliance system:          *)
(* DataProcessor (data_processor.py), AnomalyDetector                      *)
(* (anomaly_detector.py) and RiskScorer (risk_scorer.py).                  *)
(*                                                                         *)
(* Numbers are extended rationals <<n, d>> with d >= 0 in lowest terms:    *)
(* d > 0 is the finite value n/d, <<1,0>> is +inf, <<-1,0>> is -inf and    *)
(* <<0,0>> is NaN, which is what IEEE float64 arithmetic gives numpy.      *)
(* Python's None is the empty sequence <<>>; a present value x is <<x>>.   *)
(* The pass-through columns Business_Name, Industry_Name and Tax_Liability *)
(* take part in no computation and are left out of the rows.               *)
(***************************************************************************)
EXTENDS Integers, Sequences, FiniteSets, TLC

VARIABLES master_data, returns_data, audit_data, now,
          ad_model, ad_scaler, ad_feature_names, ad_score_samples,
          rs_model, rs_scaler, rs_feature_names, rs_predict_proba,
          rs_training, result, app, pinned

vars == <<master_data, returns_data, audit_data, now,
          ad_model, ad_scaler, ad_feature_names, ad_score_samples,
          rs_model, rs_scaler, rs_feature_names, rs_predict_proba,
          rs_training, result, app, pinned>>

store == <<master_data, returns_data, audit_data>>
ad_state == <<ad_model, ad_scaler, ad_feature_names, ad_score_samples>>
rs_state == <<rs_model, rs_scaler, rs_feature_names, rs_predict_proba, rs_training>>
\* app is the position of app.py's import-time start-up with the number of
\* train() calls it has made; pinned is one earlier call kept for comparison
history == <<app, pinned>>

None == <<>>
Some(x) == <<x>>

\* ------------------------------------------------------------------------
\* Extended rational arithmetic (float64 semantics of numpy scalars)
\* ------------------------------------------------------------------------
Abs(n) == IF n < 0 THEN -n ELSE n
Sign(n) == IF n < 0 THEN -1 ELSE IF n > 0 THEN 1 ELSE 0

RECURSIVE GCD(_, _)
GCD(a, b) == IF b = 0 THEN a ELSE GCD(b, a % b)

\* n/d with d >= 0, in lowest terms; d = 0 gives an infinity or NaN
Norm(n, d) ==
    IF d = 0 THEN <<Sign(n), 0>>
    ELSE IF n = 0 THEN <<0, 1>>
    ELSE LET g == GCD(Abs(n), d) IN <<n \div g, d \div g>>

N(k) == <<k, 1>>
Zero == <<0, 1>>
One == <<1, 1>>
PosInf == <<1, 0>>
NegInf == <<-1, 0>>
NaN == <<0, 0>>

IsNaN(q) == q = NaN
IsInf(q) == q[2] = 0 /\ q[1] # 0
IsFinite(q) == q[2] # 0

RNeg(q) == <<-q[1], q[2]>>
RAdd(a, b) ==
    IF IsNaN(a) \/ IsNaN(b) THEN NaN
    ELSE IF IsInf(a) /\ IsInf(b) THEN (IF a = b THEN a ELSE NaN)
    ELSE Norm(a[1] * b[2] + b[1] * a[2], a[2] * b[2])
RSub(a, b) == RAdd(a, RNeg(b))
RMul(a, b) == Norm(a[1] * b[1], a[2] * b[2])
RDiv(a, b) ==
    Norm(a[1] * b[2] * (IF b[1] < 0 THEN -1 ELSE 1), a[2] * Abs(b[1]))
RAbs(q) == <<Abs(q[1]), q[2]>>

\* comparisons; every comparison with NaN is false, as in IEEE
RGt(a, b) ==
    IF IsNaN(a) \/ IsNaN(b) THEN FALSE
    ELSE IF IsInf(a) /\ IsInf(b) THEN a[1] > b[1]
    ELSE a[1] * b[2] > b[1] * a[2]
RLt(a, b) == RGt(b, a)
RGe(a, b) == (~IsNaN(a)) /\ (~IsNaN(b)) /\ (a = b \/ RGt(a, b))
RLe(a, b) == RGe(b, a)

\* Python max(a, b) / min(a, b): the first argument unless the second beats it
PyMax(a, b) == IF RGt(b, a) THEN b ELSE a
PyMin(a, b) == IF RLt(b, a) THEN b ELSE a

\* round(x, 4): to the nearest multiple of 1/10000, ties to even;
\* infinities and NaN pass through
RoundTo(q, m) ==
    IF ~IsFinite(q) THEN q
    ELSE LET n == q[1] * m
             f == n \div q[2]
             r == n % q[2]
             k == IF 2 * r > q[2] THEN f + 1
                  ELSE IF 2 * r < q[2] THEN f
                  ELSE IF f % 2 = 0 THEN f ELSE f + 1
         IN Norm(k, m)
Round4(q) == RoundTo(q, 10000)
Round2(q) == RoundTo(q, 100)
\* the f-string format :.1f
Format1(q) == RoundTo(q, 10)

RECURSIVE SumSeq(_)
SumSeq(s) == IF s = <<>> THEN Zero ELSE RAdd(Head(s), SumSeq(Tail(s)))

Column(rows, col) == [i \in 1..Len(rows) |-> rows[i][col]]

\* ------------------------------------------------------------------------
\* DataProcessor (data_processor.py)
\*   master row : [Taxpayer_ID, Industry_Code, Registration_Date]
\*   returns row: [Taxpayer_ID, Tax_Period, Gross_Revenue, Input_Tax_Claim]
\*   audit row  : [Taxpayer_ID, Audit_Finding]
\* Dates are day numbers; the three tables are None until load_data.
\* ------------------------------------------------------------------------
Return(v) == [status |-> "return", value |-> v]
Raise(e) == [status |-> "raise", value |-> e]

RowsOf(table, taxpayer_id) ==
    LET Match(r) == r.Taxpayer_ID = taxpayer_id IN SelectSeq(table, Match)

\* input_tax_ratio of line 72
InputTaxRatio(latest_return) ==
    IF RGt(latest_return.Gross_Revenue, Zero)
    THEN RDiv(latest_return.Input_Tax_Claim, latest_return.Gross_Revenue)
    ELSE Zero

\* revenue_growth of lines 75-79 measured from the first return instead of
\* the second-to-last: a mutant
RevenueGrowthFromFirst(returns) ==
    IF Len(returns) > 1
    THEN LET prev_revenue == returns[1].Gross_Revenue
             curr_revenue == returns[Len(returns)].Gross_Revenue
         IN IF RGt(prev_revenue, Zero)
            THEN RDiv(RSub(curr_revenue, prev_revenue), prev_revenue)
            ELSE Zero
    ELSE Zero

\* revenue_growth of lines 75-79
RevenueGrowth(returns) ==
    IF Len(returns) > 1
    THEN LET prev_revenue == returns[Len(returns) - 1].Gross_Revenue
             curr_revenue == returns[Len(returns)].Gross_Revenue
         IN IF RGt(prev_revenue, Zero)
            THEN RDiv(RSub(curr_revenue, prev_revenue), prev_revenue)
            ELSE Zero
    ELSE Zero

\* the early return of lines 65-66 dropped: a mutant
FeaturesOfReturnsNoEmptyGuard(taxpayer, returns, taxpayer_id, today) ==
    Some([Taxpayer_ID |-> taxpayer_id,
          Industry_Code |-> taxpayer[1].Industry_Code,
          Gross_Revenue |-> Zero,
          Input_Tax_Claim |-> Zero,
          Input_Tax_Ratio |-> Zero,
          Revenue_Growth |-> Zero,
          Num_Returns |-> Len(returns),
          Days_Since_Registration |-> today - taxpayer[1].Registration_Date])

\* lines 62-98: the features of a known taxpayer from its returns
FeaturesOfReturns(taxpayer, returns, taxpayer_id, today) ==
    IF returns = <<>> THEN None
    ELSE LET latest_return == returns[Len(returns)]
         IN Some([Taxpayer_ID |-> taxpayer_id,
                  Industry_Code |-> taxpayer[1].Industry_Code,
                  Gross_Revenue |-> latest_return.Gross_Revenue,
                  Input_Tax_Claim |-> latest_return.Input_Tax_Claim,
                  Input_Tax_Ratio |-> InputTaxRatio(latest_return),
                  Revenue_Growth |-> RevenueGrowth(returns),
                  Num_Returns |-> Len(returns),
                  Days_Since_Registration |-> today - taxpayer[1].Registration_Date])

\* DataProcessor.get_taxpayer_features on loaded tables: None or Some(features)
get_taxpayer_features(taxpayer_id) ==
    LET taxpayer == RowsOf(master_data[1], taxpayer_id)
        returns == RowsOf(returns_data[1], taxpayer_id)
    IN IF taxpayer = <<>> THEN None
       ELSE FeaturesOfReturns(taxpayer, returns, taxpayer_id, now)

\* DataFrame.merge(right[['Taxpayer_ID']], on='Taxpayer_ID'): inner join, one
\* output row per matching pair, in the order of the left rows
RECURSIVE MergeInner(_, _)
MergeInner(left, right) ==
    IF left = <<>> THEN <<>>
    ELSE LET k == Len(RowsOf(right, Head(left).Taxpayer_ID))
         IN [i \in 1..k |-> Head(left)] \o MergeInner(Tail(left), right)

DefaultBenchmark == <<1, 10>>

\* line 110 with the "> 0" guard on the revenue sum dropped: a mutant
BenchmarkOfRowsNoZeroGuard(industry_returns) ==
    IF industry_returns = <<>> THEN DefaultBenchmark
    ELSE LET claim == SumSeq(Column(industry_returns, "Input_Tax_Claim"))
             revenue == SumSeq(Column(industry_returns, "Gross_Revenue"))
         IN IF revenue = Zero THEN Zero ELSE RDiv(claim, revenue)

\* lines 107-111
BenchmarkOfRows(industry_returns) ==
    IF industry_returns = <<>> THEN DefaultBenchmark
    ELSE LET claim == SumSeq(Column(industry_returns, "Input_Tax_Claim"))
             revenue == SumSeq(Column(industry_returns, "Gross_Revenue"))
         IN IF RGt(revenue, Zero) THEN RDiv(claim, revenue) ELSE DefaultBenchmark

\* DataProcessor.get_industry_benchmark on loaded tables
get_industry_benchmark(industry_code) ==
    LET InIndustry(r) == r.Industry_Code = industry_code
    IN BenchmarkOfRows(MergeInner(returns_data[1], SelectSeq(master_data[1], InIndustry)))

\* DataProcessor.get_all_taxpayer_features: one row per master row that has
\* features, in master order
RECURSIVE FeaturesOfAll(_)
FeaturesOfAll(master) ==
    IF master = <<>> THEN <<>>
    ELSE get_taxpayer_features(Head(master).Taxpayer_ID) \o FeaturesOfAll(Tail(master))

get_all_taxpayer_features == FeaturesOfAll(master_data[1])

\* ------------------------------------------------------------------------
\* sklearn collaborators
\* ------------------------------------------------------------------------
\* X.fillna(0).replace([inf, -inf], 0) of the training matrices
CleanTrain(q) == IF IsFinite(q) THEN q ELSE Zero
\* np.where(np.isinf(X), 0, X) of the inference vectors
ZeroInf(q) == IF IsInf(q) THEN Zero ELSE q

\* StandardScaler.fit over the rows X (finite, at least one row): per column
\* the mean and the population variance E[x^2] - E[x]^2
ScalerFit(X) ==
    LET n == Len(X)
        cols == 1..Len(X[1])
        Mean(c) == RDiv(SumSeq([i \in 1..n |-> X[i][c]]), N(n))
        MeanSq(c) == RDiv(SumSeq([i \in 1..n |-> RMul(X[i][c], X[i][c])]), N(n))
    IN [mean_ |-> [c \in cols |-> Mean(c)],
        var_ |-> [c \in cols |-> RSub(MeanSq(c), RMul(Mean(c), Mean(c)))],
        n_samples_seen_ |-> n]

\* StandardScaler.transform of one row: (x - mean_) / sqrt(var_), a zero
\* variance scaling by 1.  The quotient is kept exact as the pair
\* <<x - mean_, var_>>.
ScalerTransform(scaler, x) ==
    [c \in 1..Len(x) |->
        <<RSub(x[c], scaler.mean_[c]),
          IF scaler.var_[c] = Zero THEN One ELSE scaler.var_[c]>>]

\* A fitted estimator is a function of its training data (random_state=42);
\* its values are the variables ad_score_samples and rs_predict_proba, which
\* hold the part of the function's graph that has been evaluated so far.
\* an estimator that answers afresh at every call: a mutant
ExtensionsFresh(f, keys, values) ==
    { g @@ f : g \in [keys -> values] }

Extensions(f, keys, values) ==
    { g @@ f : g \in [keys \ DOMAIN f -> values] }

\* every ordering df.sort_values(col, ascending=True) would return: a mutant
SortValuesAscending(rows, col) ==
    { [i \in 1..Len(rows) |-> rows[p[i]]] : p \in
        { q \in Permutations(1..Len(rows)) :
            \A i \in 1..(Len(rows) - 1) : RLe(rows[q[i]][col], rows[q[i + 1]][col]) } }

\* every ordering df.sort_values(col, ascending=False) may return (ties in
\* any order)
SortValuesDescending(rows, col) ==
    { [i \in 1..Len(rows) |-> rows[p[i]]] : p \in
        { q \in Permutations(1..Len(rows)) :
            \A i \in 1..(Len(rows) - 1) : RGe(rows[q[i]][col], rows[q[i + 1]][col]) } }

\* the rows a loop over master_data['Taxpayer_ID'] collects from outcomes
RECURSIVE Collect(_)
Collect(outcomes) ==
    IF outcomes = <<>> THEN <<>>
    ELSE Head(outcomes).value \o Collect(Tail(outcomes))

AnyRaise(outcomes) == \E i \in 1..Len(outcomes) : outcomes[i].status = "raise"
FirstRaise(outcomes) ==
    outcomes[CHOOSE i \in 1..Len(outcomes) :
                /\ outcomes[i].status = "raise"
                /\ \A j \in 1..(i - 1) : outcomes[j].status # "raise"]

MasterIds == Column(master_data[1], "Taxpayer_ID")

\* ------------------------------------------------------------------------
\* AnomalyDetector (anomaly_detector.py)
\* ------------------------------------------------------------------------
AnomalyFeatureCols == <<"Input_Tax_Ratio", "Revenue_Growth", "Days_Since_Registration">>

\* lines 51-55
AnomalyVector(features) ==
    <<features.Input_Tax_Ratio, features.Revenue_Growth,
      N(features.Days_Since_Registration)>>

\* lines 57-61: the scaled vector handed to the model
AnomalyInput(features) ==
    LET X == AnomalyVector(features)
    IN ScalerTransform(ad_scaler[1], [c \in 1..Len(X) |-> ZeroInf(X[c])])

\* line 65 without the clamp: a mutant
NormalizeScoreNoClamp(raw) == RDiv(RAdd(RNeg(raw), One), N(2))

\* lines 64-65: negate, affine map, clamp to [0, 1]
NormalizeScore(raw) ==
    PyMax(Zero, PyMin(One, RDiv(RAdd(RNeg(raw), One), N(2))))

\* line 74
IsAnomalous(anomaly_score) == RGt(anomaly_score, <<1, 2>>)

\* lines 67-75
AnomalyResult(features, raw) ==
    LET anomaly_score == NormalizeScore(raw)
    IN [Taxpayer_ID |-> features.Taxpayer_ID,
        Input_Tax_Ratio |-> Round4(features.Input_Tax_Ratio),
        Revenue_Growth |-> Round4(features.Revenue_Growth),
        Anomaly_Score |-> Round4(anomaly_score),
        Is_Anomalous |-> IsAnomalous(anomaly_score)]

\* AnomalyDetector.detect_anomaly on loaded tables; sc is the graph of
\* model.score_samples
detect_anomaly(sc, taxpayer_id) ==
    LET features == get_taxpayer_features(taxpayer_id)
    IN IF features = None THEN Return(None)
       ELSE IF ad_scaler = None THEN Raise("NotFittedError")
       ELSE IF ad_model = None THEN Raise("AttributeError")
       ELSE Return(Some(AnomalyResult(features[1], sc[AnomalyInput(features[1])])))

\* the inputs detect_anomaly hands to model.score_samples for these ids
AnomalyInputs(ids) ==
    IF ad_scaler = None \/ ad_model = None THEN {}
    ELSE { AnomalyInput(get_taxpayer_features(ids[i])[1]) :
             i \in { j \in 1..Len(ids) : get_taxpayer_features(ids[j]) # None } }

\* lines 85-88 and 124-127: the frame of the collected rows sorted, or the
\* first exception of the loop; sorting an empty frame by a column it does
\* not have raises KeyError
SortedOutcomes(outcomes, col) ==
    IF AnyRaise(outcomes) THEN {FirstRaise(outcomes)}
    ELSE UNION { IF rows = <<>> THEN {Raise("KeyError")}
                 ELSE { Return(df) : df \in SortValuesDescending(rows, col) } :
                 rows \in {Collect(outcomes)} }

\* AnomalyDetector.detect_all_anomalies: the set of possible outcomes
detect_all_anomalies(sc) ==
    UNION { SortedOutcomes(outcomes, "Anomaly_Score") :
              outcomes \in { [i \in 1..Len(MasterIds) |->
                                detect_anomaly(sc, MasterIds[i])] } }

\* line 116: the relative deviation of the ratio from the benchmark
RatioDeviation(features, benchmark) ==
    IF RGt(benchmark, Zero)
    THEN RDiv(RSub(features.Input_Tax_Ratio, benchmark), benchmark)
    ELSE Zero

Percent(q) == RMul(q, N(100))

\* lines 117-120: the messages of the ratio rule
RatioMessages(ratio_deviation) ==
    IF RGt(ratio_deviation, One)
    THEN << <<"Input tax claim is", Format1(Percent(ratio_deviation)),
              "% higher than industry benchmark">> >>
    ELSE IF RLt(ratio_deviation, <<-1, 2>>)
    THEN << <<"Input tax claim is", Format1(Percent(RAbs(ratio_deviation))),
              "% lower than industry benchmark">> >>
    ELSE <<>>

\* lines 123-126 with ">=" for ">": a mutant
GrowthMessagesInclusive(revenue_growth) ==
    IF RGe(revenue_growth, <<1, 2>>)
    THEN << <<"Revenue grew by", Format1(Percent(revenue_growth)),
              "% (unusually high)">> >>
    ELSE IF RLt(revenue_growth, <<-3, 10>>)
    THEN << <<"Revenue declined by", Format1(Percent(RAbs(revenue_growth))), "%">> >>
    ELSE <<>>

\* lines 123-126: the messages of the growth rule
GrowthMessages(revenue_growth) ==
    IF RGt(revenue_growth, <<1, 2>>)
    THEN << <<"Revenue grew by", Format1(Percent(revenue_growth)),
              "% (unusually high)">> >>
    ELSE IF RLt(revenue_growth, <<-3, 10>>)
    THEN << <<"Revenue declined by", Format1(Percent(RAbs(revenue_growth))), "%">> >>
    ELSE <<>>

NoAnomalies == << <<"No significant anomalies detected">> >>

\* AnomalyDetector._generate_explanation: the text is the sequence of the
\* messages that " | ".join puts together
generate_explanation(features, benchmark) ==
    LET explanations == RatioMessages(RatioDeviation(features, benchmark))
                        \o GrowthMessages(features.Revenue_Growth)
    IN IF explanations # <<>> THEN explanations ELSE NoAnomalies

\* AnomalyDetector.get_anomaly_explanation on loaded tables
get_anomaly_explanation(taxpayer_id) ==
    LET features == get_taxpayer_features(taxpayer_id)
    IN IF features = None THEN Return(None)
       ELSE LET f == features[1]
                benchmark == get_industry_benchmark(f.Industry_Code)
            IN Return(Some(
                 [Taxpayer_ID |-> taxpayer_id,
                  Input_Tax_Ratio |-> Round4(f.Input_Tax_Ratio),
                  Industry_Benchmark |-> Round4(benchmark),
                  Deviation |-> Round4(RSub(f.Input_Tax_Ratio, benchmark)),
                  Deviation_Percentage |->
                      IF RGt(benchmark, Zero)
                      THEN Round2(Percent(RDiv(RSub(f.Input_Tax_Ratio, benchmark), benchmark)))
                      ELSE Zero,
                  Revenue_Growth |-> Round4(f.Revenue_Growth),
                  Explanation |-> generate_explanation(f, benchmark)]))

\* ------------------------------------------------------------------------
\* RiskScorer (risk_scorer.py)
\* ------------------------------------------------------------------------
RiskFeatureCols == <<"Input_Tax_Ratio", "Revenue_Growth", "Days_Since_Registration",
                     "Anomaly_Score", "Num_Returns">>

\* line 39 with the finding compared against 'Compliant': a mutant
IsNonCompliantInverted(audit) == IF audit.Audit_Finding # "Compliant" THEN 1 ELSE 0

\* line 39
IsNonCompliant(audit) == IF audit.Audit_Finding = "Non-Compliant" THEN 1 ELSE 0

RECURSIVE MaxOf(_)
MaxOf(s) == IF Len(s) = 1 THEN s[1]
            ELSE LET m == MaxOf(Tail(s)) IN IF s[1] > m THEN s[1] ELSE m

\* lines 38-44: the label the two merges and fillna(0) give a taxpayer;
\* groupby('Taxpayer_ID') has one row per audited taxpayer
AuditLabel(taxpayer_id) ==
    LET audits == RowsOf(audit_data[1], taxpayer_id)
    IN IF audits = <<>> THEN 0
       ELSE MaxOf([i \in 1..Len(audits) |-> IsNonCompliant(audits[i])])

\* lines 31-35 and 43: features_df left-merged with the anomaly scores (one
\* row per match, NaN when there is none) and with the labels
RECURSIVE TrainingData(_, _)
TrainingData(features_df, anomalies) ==
    IF features_df = <<>> THEN <<>>
    ELSE LET f == Head(features_df)
             matches == RowsOf(anomalies, f.Taxpayer_ID)
             scores == IF matches = <<>> THEN <<NaN>> ELSE Column(matches, "Anomaly_Score")
         IN [i \in 1..Len(scores) |->
               [Taxpayer_ID |-> f.Taxpayer_ID,
                X |-> <<CleanTrain(f.Input_Tax_Ratio), CleanTrain(f.Revenue_Growth),
                        N(f.Days_Since_Registration), CleanTrain(scores[i]),
                        N(f.Num_Returns)>>,
                Is_Non_Compliant |-> AuditLabel(f.Taxpayer_ID)]]
            \o TrainingData(Tail(features_df), anomalies)

\* lines 90-102: the scaled vector handed to the model
RiskInput(features, anomaly_score) ==
    LET X == <<features.Input_Tax_Ratio, features.Revenue_Growth,
               N(features.Days_Since_Registration), anomaly_score,
               N(features.Num_Returns)>>
    IN ScalerTransform(rs_scaler[1], [c \in 1..Len(X) |-> ZeroInf(X[c])])

\* RiskScorer._get_risk_level
get_risk_level(risk_score) ==
    IF RGe(risk_score, <<7, 10>>) THEN "CRITICAL"
    ELSE IF RGe(risk_score, <<1, 2>>) THEN "HIGH"
    ELSE IF RGe(risk_score, <<3, 10>>) THEN "MEDIUM"
    ELSE "LOW"

\* RiskScorer._get_recommendation
get_recommendation(risk_level) ==
    CASE risk_level = "CRITICAL" ->
           "Immediate audit recommended. Potential fraud indicators detected."
      [] risk_level = "HIGH" ->
           "Priority audit recommended. Multiple risk factors present."
      [] risk_level = "MEDIUM" ->
           "Routine audit recommended. Some anomalies detected."
      [] risk_level = "LOW" ->
           "Standard monitoring. No immediate action required."
      [] OTHER -> "Review recommended."

RsFitted == rs_model # None /\ rs_model[1].fitted

\* RiskScorer.score_taxpayer on loaded tables; sc and pp are the graphs of
\* the two models
score_taxpayer(sc, pp, taxpayer_id) ==
    LET features == get_taxpayer_features(taxpayer_id)
        anomaly == detect_anomaly(sc, taxpayer_id)
    IN IF features = None THEN Return(None)
       ELSE IF anomaly.status = "raise" THEN anomaly
       ELSE LET anomaly_score == IF anomaly.value # None
                                 THEN anomaly.value[1].Anomaly_Score ELSE Zero
            IN IF rs_scaler = None THEN Raise("NotFittedError")
               ELSE IF rs_model = None THEN Raise("AttributeError")
               ELSE IF ~rs_model[1].fitted THEN Raise("NotFittedError")
               ELSE LET risk_score == pp[RiskInput(features[1], anomaly_score)]
                    IN Return(Some(
                         [Taxpayer_ID |-> taxpayer_id,
                          Risk_Score |-> Round4(risk_score),
                          Risk_Level |-> get_risk_level(risk_score),
                          Anomaly_Score |-> Round4(anomaly_score)]))

\* the inputs score_taxpayer hands to model.predict_proba for these ids
RiskInputs(sc, ids) ==
    IF ~RsFitted \/ rs_scaler = None THEN {}
    ELSE { RiskInput(get_taxpayer_features(ids[i])[1],
                     detect_anomaly(sc, ids[i]).value[1].Anomaly_Score) :
             i \in { j \in 1..Len(ids) :
                       /\ get_taxpayer_features(ids[j]) # None
                       /\ detect_anomaly(sc, ids[j]).status = "return" } }

\* RiskScorer.score_all_taxpayers: the set of possible outcomes
score_all_taxpayers(sc, pp) ==
    UNION { SortedOutcomes(outcomes, "Risk_Score") :
              outcomes \in { [i \in 1..Len(MasterIds) |->
                                score_taxpayer(sc, pp, MasterIds[i])] } }

\* RiskScorer.get_feature_importance
get_feature_importance ==
    IF rs_model = None THEN Return(None)
    ELSE IF ~rs_model[1].fitted THEN Raise("NotFittedError")
    ELSE Return(Some([c \in 1..Len(rs_feature_names[1]) |->
                        <<rs_feature_names[1][c],
                          Round4(rs_model[1].feature_importances_[c])>>]))

\* RiskScorer.get_risk_explanation on loaded tables
get_risk_explanation(sc, pp, taxpayer_id) ==
    LET score_info == score_taxpayer(sc, pp, taxpayer_id)
        features == get_taxpayer_features(taxpayer_id)
        anomaly_exp == get_anomaly_explanation(taxpayer_id)
    IN IF score_info.status = "raise" THEN score_info
       ELSE IF score_info.value = None \/ features = None THEN Return(None)
       ELSE Return(Some(
              [Taxpayer_ID |-> taxpayer_id,
               Risk_Score |-> score_info.value[1].Risk_Score,
               Risk_Level |-> score_info.value[1].Risk_Level,
               Key_Factors |->
                  [Input_Tax_Ratio |-> Round4(features[1].Input_Tax_Ratio),
                   Revenue_Growth |-> Round4(features[1].Revenue_Growth),
                   Anomaly_Score |-> score_info.value[1].Anomaly_Score,
                   Num_Returns |-> features[1].Num_Returns],
               Anomaly_Explanation |-> anomaly_exp.value[1].Explanation,
               Recommendation |-> get_recommendation(score_info.value[1].Risk_Level)]))

\* ------------------------------------------------------------------------
\* Inputs
\* ------------------------------------------------------------------------
Today == 400
\* days the application keeps serving after start-up
MaxDays == 1
MaxReturns == 3
MaxAudits == 2

MasterRow(id, code, reg) ==
    [Taxpayer_ID |-> id, Industry_Code |-> code, Registration_Date |-> reg]
ReturnRow(id, period, revenue, claim) ==
    [Taxpayer_ID |-> id, Tax_Period |-> period,
     Gross_Revenue |-> revenue, Input_Tax_Claim |-> claim]
AuditRow(id, finding) == [Taxpayer_ID |-> id, Audit_Finding |-> finding]

SeqsUpTo(S, n) == UNION { [1..k -> S] : k \in 0..n }

\* taxpayer 3 never files; 9 is an id no table knows, "Z" a code no taxpayer has
Master3 == <<MasterRow(1, "A", 100), MasterRow(2, "A", 35), MasterRow(3, "B", 0)>>
QueryIds == {1, 2, 3, 9}
QueryCodes == {"A", "B", "Z"}

\* the contents of the three CSV files the pipeline is run on
Datasets ==
    { [master |-> Master3,
       returns |-> <<ReturnRow(1, 1, N(100), N(10)), ReturnRow(2, 1, N(150), N(0)),
                     ReturnRow(1, 2, N(150), N(10)), ReturnRow(2, 2, PosInf, N(10))>>,
       audits |-> <<AuditRow(1, "Compliant"), AuditRow(2, "Compliant"),
                    AuditRow(1, "Non-Compliant"), AuditRow(9, "Non-Compliant")>>],
      [master |-> <<MasterRow(1, "A", 100), MasterRow(2, "A", 35)>>,
       returns |-> <<ReturnRow(1, 1, N(100), N(10)), ReturnRow(1, 2, NegInf, N(40))>>,
       audits |-> <<AuditRow(1, "Compliant"), AuditRow(2, "Pending")>>],
      [master |-> <<MasterRow(1, "A", 100), MasterRow(2, "B", 35)>>,
       returns |-> <<>>,
       audits |-> <<>>] }

\* files for the feature computations: every returns table of up to
\* MaxReturns rows; taxpayer 1 files in any order of periods, with negative,
\* zero and positive revenue
FeatureReturnRows ==
    { ReturnRow(1, period, N(revenue), N(10)) :
        period \in {1, 2}, revenue \in {-50, 0, 100, 150} }
    \cup { ReturnRow(2, 1, N(100), N(10)) }
FeatureDatasets ==
    { [master |-> Master3, returns |-> r, audits |-> <<>>] :
        r \in SeqsUpTo(FeatureReturnRows, MaxReturns) }

\* files for the explanations: every returns table of taxpayer 1 of up to
\* MaxReturns rows, and the benchmarks _generate_explanation is given
ExplainReturnRows ==
    { ReturnRow(1, 1, N(revenue), N(claim)) :
        revenue \in {70, 100, 150, 151}, claim \in {10, 40} }
ExplainDatasets ==
    { [master |-> Master3, returns |-> r, audits |-> <<>>] :
        r \in SeqsUpTo(ExplainReturnRows, MaxReturns) }
Benchmarks == {Zero, <<1, 20>>, <<1, 10>>, <<1, 5>>, <<1, 2>>}

\* files for the label derivation: every audit table of up to MaxAudits rows
AuditRows ==
    { AuditRow(id, finding) :
        id \in {1, 2, 3}, finding \in {"Compliant", "Non-Compliant", "Pending"} }
LabelDatasets ==
    { [master |-> Master3,
       returns |-> <<ReturnRow(1, 1, N(100), N(10)), ReturnRow(2, 1, N(150), N(10))>>,
       audits |-> a] : a \in SeqsUpTo(AuditRows, MaxAudits) }

\* values of model.score_samples: one for each clamp, 0 which maps to the flag
\* boundary 0.5 and -0.00008 which maps to 0.50004
RawScores == {N(-3), <<-1, 12500>>, Zero, N(3)}
\* values of model.predict_proba[0][1]: the level boundaries 0.3 and 0.7 and
\* the values 0.29996 and 0.69996 just below them
Probas == {<<7499, 25000>>, <<3, 10>>, <<17499, 25000>>, <<7, 10>>}
\* values of model.feature_importances_
Importances == { <<<<1, 3>>, <<2, 3>>, Zero, Zero, Zero>> }

\* ------------------------------------------------------------------------
\* State machine: the operations of the three classes, callable in any order
\* ------------------------------------------------------------------------
Outcome(op, arg, outcome) ==
    [op |-> op, arg |-> arg, status |-> outcome.status, value |-> outcome.value]

Loaded == master_data # None
InMaster(id) ==
    \E i \in 1..Len(master_data[1]) : master_data[1][i].Taxpayer_ID = id

\* __init__ of the three classes
Init ==
    /\ master_data = None /\ returns_data = None /\ audit_data = None
    /\ now = Today
    /\ ad_model = None /\ ad_scaler = None /\ ad_feature_names = None
    /\ ad_score_samples = <<>>
    /\ rs_model = None /\ rs_scaler = None /\ rs_feature_names = None
    /\ rs_predict_proba = <<>>
    /\ rs_training = None
    /\ result = Outcome("init", <<>>, Return(None))
    /\ app = [pc |-> "import", ad_trains |-> 0, rs_trains |-> 0]
    /\ pinned = None

\* DataProcessor.load_data, once, on one of the given files
LoadData(files) ==
    /\ ~Loaded
    /\ \E d \in files :
         /\ master_data' = Some(d.master)
         /\ returns_data' = Some(d.returns)
         /\ audit_data' = Some(d.audits)
    /\ result' = Outcome("load_data", <<>>, Return(None))
    /\ UNCHANGED <<now, ad_state, rs_state>>

\* the exception every operation that reads the tables raises before load_data
NotLoaded(op, arg) ==
    /\ result' = Outcome(op, arg, Raise("TypeError"))
    /\ UNCHANGED <<store, now, ad_state, rs_state>>

GetTaxpayerFeatures(taxpayer_id) ==
    IF ~Loaded THEN NotLoaded("get_taxpayer_features", <<taxpayer_id>>)
    ELSE /\ result' = Outcome("get_taxpayer_features", <<taxpayer_id>>,
                              Return(get_taxpayer_features(taxpayer_id)))
         /\ UNCHANGED <<store, now, ad_state, rs_state>>

GetIndustryBenchmark(industry_code) ==
    IF ~Loaded THEN NotLoaded("get_industry_benchmark", <<industry_code>>)
    ELSE /\ result' = Outcome("get_industry_benchmark", <<industry_code>>,
                              Return(get_industry_benchmark(industry_code)))
         /\ UNCHANGED <<store, now, ad_state, rs_state>>

GetAllTaxpayerFeatures ==
    IF ~Loaded THEN NotLoaded("get_all_taxpayer_features", <<>>)
    ELSE /\ result' = Outcome("get_all_taxpayer_features", <<>>,
                              Return(get_all_taxpayer_features))
         /\ UNCHANGED <<store, now, ad_state, rs_state>>

\* lines 28-32: the cleaned training matrix
AnomalyTrainingMatrix(features_df) ==
    [i \in 1..Len(features_df) |->
        [c \in 1..3 |-> CleanTrain(AnomalyVector(features_df[i])[c])]]

\* AnomalyDetector.train; selecting the columns of an empty frame raises
\* KeyError
TrainAnomaly ==
    IF ~Loaded THEN NotLoaded("ad_train", <<>>)
    ELSE \E features_df \in {get_all_taxpayer_features} :
         IF features_df = <<>>
         THEN /\ result' = Outcome("ad_train", <<>>, Raise("KeyError"))
              /\ UNCHANGED <<store, now, ad_state, rs_state>>
         ELSE \E X \in {AnomalyTrainingMatrix(features_df)} :
              \E scaler \in {ScalerFit(X)} :
              \E model \in {[fit_X |-> [i \in 1..Len(X) |-> ScalerTransform(scaler, X[i])]]} :
                /\ ad_scaler' = Some(scaler)
                /\ ad_model' = Some(model)
                /\ ad_feature_names' = Some(AnomalyFeatureCols)
                /\ ad_score_samples' =
                      IF ad_model = Some(model) THEN ad_score_samples ELSE <<>>
                /\ result' = Outcome("ad_train", <<>>, Return(None))
                /\ UNCHANGED <<store, now, rs_state>>

\* detect_anomaly with fit_transform in place of transform at line 61: a mutant
DetectAnomalyRefit(taxpayer_id) ==
    IF ~Loaded THEN NotLoaded("detect_anomaly", <<taxpayer_id>>)
    ELSE \E sc \in Extensions(ad_score_samples, AnomalyInputs(<<taxpayer_id>>), RawScores) :
         \E features \in {get_taxpayer_features(taxpayer_id)} :
           /\ ad_score_samples' = sc
           /\ result' = Outcome("detect_anomaly", <<taxpayer_id>>, detect_anomaly(sc, taxpayer_id))
           /\ ad_scaler' = IF features = <<>> \/ ad_scaler = None THEN ad_scaler
                           ELSE Some(ScalerFit(AnomalyTrainingMatrix(features)))
           /\ UNCHANGED <<store, now, ad_model, ad_feature_names, rs_state>>

DetectAnomaly(taxpayer_id) ==
    IF ~Loaded THEN NotLoaded("detect_anomaly", <<taxpayer_id>>)
    ELSE \E sc \in Extensions(ad_score_samples, AnomalyInputs(<<taxpayer_id>>), RawScores) :
           /\ ad_score_samples' = sc
           /\ result' = Outcome("detect_anomaly", <<taxpayer_id>>,
                                detect_anomaly(sc, taxpayer_id))
           /\ UNCHANGED <<store, now, ad_model, ad_scaler, ad_feature_names, rs_state>>

DetectAllAnomalies ==
    IF ~Loaded THEN NotLoaded("detect_all_anomalies", <<>>)
    ELSE \E sc \in Extensions(ad_score_samples, AnomalyInputs(MasterIds), RawScores) :
         \E outcome \in detect_all_anomalies(sc) :
           /\ ad_score_samples' = sc
           /\ result' = Outcome("detect_all_anomalies", <<>>, outcome)
           /\ UNCHANGED <<store, now, ad_model, ad_scaler, ad_feature_names, rs_state>>

GetAnomalyExplanation(taxpayer_id) ==
    IF ~Loaded THEN NotLoaded("get_anomaly_explanation", <<taxpayer_id>>)
    ELSE /\ result' = Outcome("get_anomaly_explanation", <<taxpayer_id>>,
                              get_anomaly_explanation(taxpayer_id))
         /\ UNCHANGED <<store, now, ad_state, rs_state>>

\* AnomalyDetector._generate_explanation on a taxpayer's features and a
\* given benchmark
GenerateExplanation(taxpayer_id, benchmark) ==
    /\ Loaded
    /\ get_taxpayer_features(taxpayer_id) # None
    /\ result' = Outcome("_generate_explanation", <<taxpayer_id, benchmark>>,
                         Return(generate_explanation(
                                  get_taxpayer_features(taxpayer_id)[1], benchmark)))
    /\ UNCHANGED <<store, now, ad_state, rs_state>>

\* RiskScorer.train.  The scaler is fit (line 60) and the unfitted classifier
\* assigned (line 63) before GradientBoostingClassifier.fit (line 69), which
\* raises ValueError when y holds a single class.
TrainRisk ==
    IF ~Loaded THEN NotLoaded("rs_train", <<>>)
    ELSE \E sc \in Extensions(ad_score_samples, AnomalyInputs(MasterIds), RawScores) :
         \E anomalies \in detect_all_anomalies(sc) :
           /\ ad_score_samples' = sc
           /\ UNCHANGED <<store, now, ad_model, ad_scaler, ad_feature_names>>
           /\ IF anomalies.status = "raise"
              THEN /\ result' = Outcome("rs_train", <<>>, anomalies)
                   /\ UNCHANGED rs_state
              ELSE \E training_data \in
                        {TrainingData(get_all_taxpayer_features, anomalies.value)} :
                   \E X \in {Column(training_data, "X")} :
                   \E y \in {Column(training_data, "Is_Non_Compliant")} :
                   \E scaler \in {ScalerFit(X)} :
                   \E fit_X \in {[i \in 1..Len(X) |-> ScalerTransform(scaler, X[i])]} :
                   \E importances \in Importances :
                     /\ rs_training' = Some(training_data)
                     /\ rs_scaler' = Some(scaler)
                     /\ IF \A i \in 1..Len(y) : y[i] = y[1]
                        THEN /\ rs_model' = Some([fitted |-> FALSE, fit_X |-> <<>>,
                                                  fit_y |-> <<>>,
                                                  feature_importances_ |-> <<>>])
                             /\ rs_predict_proba' = <<>>
                             /\ UNCHANGED rs_feature_names
                             /\ result' = Outcome("rs_train", <<>>, Raise("ValueError"))
                        ELSE /\ IF RsFitted /\ rs_model[1].fit_X = fit_X
                                            /\ rs_model[1].fit_y = y
                                THEN UNCHANGED <<rs_model, rs_predict_proba>>
                                ELSE /\ rs_model' =
                                          Some([fitted |-> TRUE, fit_X |-> fit_X,
                                                fit_y |-> y,
                                                feature_importances_ |-> importances])
                                     /\ rs_predict_proba' = <<>>
                             /\ rs_feature_names' = Some(RiskFeatureCols)
                             /\ result' = Outcome("rs_train", <<>>, Return(None))

ScoreTaxpayer(taxpayer_id) ==
    IF ~Loaded THEN NotLoaded("score_taxpayer", <<taxpayer_id>>)
    ELSE \E sc \in Extensions(ad_score_samples, AnomalyInputs(<<taxpayer_id>>), RawScores) :
         \E pp \in Extensions(rs_predict_proba, RiskInputs(sc, <<taxpayer_id>>), Probas) :
           /\ ad_score_samples' = sc
           /\ rs_predict_proba' = pp
           /\ result' = Outcome("score_taxpayer", <<taxpayer_id>>,
                                score_taxpayer(sc, pp, taxpayer_id))
           /\ UNCHANGED <<store, now, ad_model, ad_scaler, ad_feature_names,
                          rs_model, rs_scaler, rs_feature_names, rs_training>>

ScoreAllTaxpayers ==
    IF ~Loaded THEN NotLoaded("score_all_taxpayers", <<>>)
    ELSE \E sc \in Extensions(ad_score_samples, AnomalyInputs(MasterIds), RawScores) :
         \E pp \in Extensions(rs_predict_proba, RiskInputs(sc, MasterIds), Probas) :
         \E outcome \in score_all_taxpayers(sc, pp) :
           /\ ad_score_samples' = sc
           /\ rs_predict_proba' = pp
           /\ result' = Outcome("score_all_taxpayers", <<>>, outcome)
           /\ UNCHANGED <<store, now, ad_model, ad_scaler, ad_feature_names,
                          rs_model, rs_scaler, rs_feature_names, rs_training>>

GetRiskExplanation(taxpayer_id) ==
    IF ~Loaded THEN NotLoaded("get_risk_explanation", <<taxpayer_id>>)
    ELSE \E sc \in Extensions(ad_score_samples, AnomalyInputs(<<taxpayer_id>>), RawScores) :
         \E pp \in Extensions(rs_predict_proba, RiskInputs(sc, <<taxpayer_id>>), Probas) :
           /\ ad_score_samples' = sc
           /\ rs_predict_proba' = pp
           /\ result' = Outcome("get_risk_explanation", <<taxpayer_id>>,
                                get_risk_explanation(sc, pp, taxpayer_id))
           /\ UNCHANGED <<store, now, ad_model, ad_scaler, ad_feature_names,
                          rs_model, rs_scaler, rs_feature_names, rs_training>>

GetFeatureImportance ==
    /\ result' = Outcome("get_feature_importance", <<>>, get_feature_importance)
    /\ UNCHANGED <<store, now, ad_state, rs_state>>

\* the three classes used in any order on one of the files
Next ==
    \/ LoadData(Datasets) /\ UNCHANGED history
    \/ TrainAnomaly /\ UNCHANGED history
    \/ TrainRisk /\ UNCHANGED history
    \/ \E id \in QueryIds : GetTaxpayerFeatures(id) /\ UNCHANGED history
    \/ \E code \in QueryCodes : GetIndustryBenchmark(code) /\ UNCHANGED history
    \/ GetAllTaxpayerFeatures /\ UNCHANGED history
    \/ \E id \in QueryIds : DetectAnomaly(id) /\ UNCHANGED history
    \/ DetectAllAnomalies /\ UNCHANGED history
    \/ \E id \in QueryIds : GetAnomalyExplanation(id) /\ UNCHANGED history
    \/ \E id \in QueryIds : ScoreTaxpayer(id) /\ UNCHANGED history
    \/ ScoreAllTaxpayers /\ UNCHANGED history
    \/ \E id \in QueryIds : GetRiskExplanation(id) /\ UNCHANGED history
    \/ GetFeatureImportance /\ UNCHANGED history

Spec == Init /\ [][Next]_vars

\* the feature computations over every small returns table
NextFeatures ==
    \/ LoadData(FeatureDatasets) /\ UNCHANGED history
    \/ \E id \in QueryIds : GetTaxpayerFeatures(id) /\ UNCHANGED history
    \/ \E code \in QueryCodes : GetIndustryBenchmark(code) /\ UNCHANGED history
    \/ GetAllTaxpayerFeatures /\ UNCHANGED history

SpecFeatures == Init /\ [][NextFeatures]_vars

\* the explanations over every small returns table of one taxpayer
NextExplain ==
    \/ LoadData(ExplainDatasets) /\ UNCHANGED history
    \/ \E id \in QueryIds : GetAnomalyExplanation(id) /\ UNCHANGED history
    \/ \E id \in QueryIds, benchmark \in Benchmarks :
          GenerateExplanation(id, benchmark) /\ UNCHANGED history

SpecExplain == Init /\ [][NextExplain]_vars

\* the label derivation over every small audit table
NextLabels ==
    \/ LoadData(LabelDatasets) /\ UNCHANGED history
    \/ TrainAnomaly /\ UNCHANGED history
    \/ TrainRisk /\ UNCHANGED history

SpecLabels == Init /\ [][NextLabels]_vars

\* app.py: initialize_system runs once while the module is imported, before
\* any route is registered; an exception in it aborts the import, so the
\* server never starts
Step(to) == IF result'.status = "return" THEN to ELSE "failed"

AppLoadData ==
    /\ app.pc = "import"
    /\ LoadData(Datasets)
    /\ app' = [app EXCEPT !.pc = Step("loaded")]
    /\ UNCHANGED pinned

AppTrainAnomaly ==
    /\ app.pc = "loaded"
    /\ TrainAnomaly
    /\ app' = [app EXCEPT !.pc = Step("ad_trained"), !.ad_trains = @ + 1]
    /\ UNCHANGED pinned

AppTrainRiskSwallowed ==
    /\ app.pc = "ad_trained"
    /\ TrainRisk
    /\ app' = [app EXCEPT !.pc = "serving", !.rs_trains = @ + 1]
    /\ UNCHANGED pinned

AppTrainRisk ==
    /\ app.pc = "ad_trained"
    /\ TrainRisk
    /\ app' = [app EXCEPT !.pc = Step("serving"), !.rs_trains = @ + 1]
    /\ UNCHANGED pinned

\* /dashboard, /api/high-risk-taxpayers, /risk-scoring, /api/risk-scores,
\* /audit-prioritization, /api/audit-candidates
RouteRiskScores ==
    /\ app.pc = "serving"
    /\ ScoreAllTaxpayers
    /\ UNCHANGED history

\* /anomalies, /api/anomalies
RouteAnomalies ==
    /\ app.pc = "serving"
    /\ DetectAllAnomalies
    /\ UNCHANGED history

\* /taxpayer/<taxpayer_id>, /api/taxpayer/<taxpayer_id>: 404 for an id that is
\* not in the master table
RouteTaxpayerDetail(taxpayer_id) ==
    /\ app.pc = "serving"
    /\ IF InMaster(taxpayer_id) THEN ScoreTaxpayer(taxpayer_id)
       ELSE /\ result' = Outcome("taxpayer_detail", <<taxpayer_id>>, Return(404))
            /\ UNCHANGED <<store, now, ad_state, rs_state>>
    /\ UNCHANGED history

NextApp ==
    \/ AppLoadData
    \/ AppTrainAnomaly
    \/ AppTrainRisk
    \/ RouteRiskScores
    \/ RouteAnomalies
    \/ \E id \in QueryIds : RouteTaxpayerDetail(id)

SpecApp == Init /\ [][NextApp]_vars

\* the running application over several days: datetime.now() at line 95 of
\* data_processor.py is read anew by every call
Tick ==
    /\ app.pc = "serving"
    /\ now < Today + MaxDays
    /\ now' = now + 1
    /\ UNCHANGED <<store, ad_state, rs_state, result, history>>

\* one call is kept, with the day it was made on, to compare later calls with;
\* later records that the same operation was called again with the same id
Pin ==
    \/ /\ pinned = None
       /\ pinned' \in {None, Some([op |-> result'.op, arg |-> result'.arg, day |-> now,
                                   status |-> result'.status, value |-> result'.value,
                                   later |-> FALSE])}
    \/ /\ pinned # None
       /\ pinned' = IF result'.op = pinned[1].op /\ result'.arg = pinned[1].arg
                    THEN Some([pinned[1] EXCEPT !.later = TRUE])
                    ELSE pinned

\* the values the two fitted models are seen to take while the clock runs
ClockRawScores == {N(-3), N(3)}
ClockProbas == {<<3, 10>>, <<7, 10>>}
ClockIds == {1, 9}
Within(f, values) == \A k \in DOMAIN f : f[k] \in values
ClockModels ==
    /\ Within(ad_score_samples', ClockRawScores)
    /\ Within(rs_predict_proba', ClockProbas)

ClockTrainRisk == AppTrainRisk /\ ClockModels

AskFeatures(taxpayer_id) ==
    /\ app.pc = "serving"
    /\ GetTaxpayerFeatures(taxpayer_id)
    /\ UNCHANGED app
    /\ Pin

AskAnomaly(taxpayer_id) ==
    /\ app.pc = "serving"
    /\ DetectAnomaly(taxpayer_id)
    /\ ClockModels
    /\ UNCHANGED app
    /\ Pin

AskRisk(taxpayer_id) ==
    /\ app.pc = "serving"
    /\ ScoreTaxpayer(taxpayer_id)
    /\ ClockModels
    /\ UNCHANGED app
    /\ Pin

NextClock ==
    \/ AppLoadData
    \/ AppTrainAnomaly
    \/ ClockTrainRisk
    \/ Tick
    \/ \E id \in ClockIds : AskFeatures(id)
    \/ \E id \in ClockIds : AskAnomaly(id)
    \/ \E id \in ClockIds : AskRisk(id)

SpecClock == Init /\ [][NextClock]_vars

\* ------------------------------------------------------------------------
\* Properties
\* ------------------------------------------------------------------------
Returned(op) == result.op = op /\ result.status = "return"
ReturnedSome(op) == Returned(op) /\ result.value # None

ReturnIndexes(id) ==
    { j \in 1..Len(returns_data[1]) : returns_data[1][j].Taxpayer_ID = id }
ZeroReturns(id) == Loaded /\ InMaster(id) /\ ReturnIndexes(id) = {}
HasFeatureVector(id) == Loaded /\ InMaster(id) /\ ReturnIndexes(id) # {}

\* q >= n/d and q > n/d for a finite q and d > 0
AtLeast(q, n, d) == q[2] > 0 /\ q[1] * d >= n * q[2]
Above(q, n, d) == q[2] > 0 /\ q[1] * d > n * q[2]
InUnitInterval(q) == q[2] > 0 /\ 0 <= q[1] /\ q[1] <= q[2]

\* C1: a taxpayer of the Data Store with zero returns has no features
\* (get_taxpayer_features returns None) and its id is in no row returned by
\* detect_all_anomalies or score_all_taxpayers.
C1_ZeroReturnsExcluded ==
    /\ (Returned("get_taxpayer_features") /\ ZeroReturns(result.arg[1]))
          => result.value = None
    /\ (Returned("detect_all_anomalies") \/ Returned("score_all_taxpayers"))
          => \A i \in 1..Len(result.value) : ~ZeroReturns(result.value[i].Taxpayer_ID)

C1_Witness ==
    /\ Returned("score_all_taxpayers")
    /\ Len(result.value) >= 2
    /\ \E id \in QueryIds : ZeroReturns(id)

\* the step function of the thresholds 0.7, 0.5, 0.3
StepLevel(score) ==
    IF AtLeast(score, 7, 10) THEN "CRITICAL"
    ELSE IF AtLeast(score, 1, 2) THEN "HIGH"
    ELSE IF AtLeast(score, 3, 10) THEN "MEDIUM"
    ELSE "LOW"

\* C2: in every result of score_taxpayer and every row of
\* score_all_taxpayers, Risk_Level is the step function of the returned
\* Risk_Score (>= 0.7 CRITICAL, >= 0.5 HIGH, >= 0.3 MEDIUM, else LOW).
C2_LevelIsStepOfReturnedScore ==
    /\ ReturnedSome("score_taxpayer")
          => result.value[1].Risk_Level = StepLevel(result.value[1].Risk_Score)
    /\ Returned("score_all_taxpayers")
          => \A i \in 1..Len(result.value) :
               result.value[i].Risk_Level = StepLevel(result.value[i].Risk_Score)

\* C3: the Anomaly_Score returned by detect_anomaly and the Risk_Score (and
\* Anomaly_Score) returned by score_taxpayer lie in [0, 1], whatever the raw
\* outlier measure and also for features that are infinite before the
\* substitution.
C3_ScoresInUnitInterval ==
    /\ ReturnedSome("detect_anomaly") => InUnitInterval(result.value[1].Anomaly_Score)
    /\ ReturnedSome("score_taxpayer")
          => /\ InUnitInterval(result.value[1].Risk_Score)
             /\ InUnitInterval(result.value[1].Anomaly_Score)

C3_Witness ==
    /\ ReturnedSome("score_taxpayer")
    /\ IsInf(get_taxpayer_features(result.arg[1])[1].Revenue_Growth)
    /\ result.value[1].Anomaly_Score = One

\* C4: the rows returned by detect_all_anomalies are in non-increasing order
\* of Anomaly_Score and the rows returned by score_all_taxpayers in
\* non-increasing order of Risk_Score.
C4_SortedDescending ==
    /\ Returned("detect_all_anomalies")
          => \A i \in 1..(Len(result.value) - 1) :
               AtLeast(result.value[i].Anomaly_Score,
                       result.value[i + 1].Anomaly_Score[1],
                       result.value[i + 1].Anomaly_Score[2])
    /\ Returned("score_all_taxpayers")
          => \A i \in 1..(Len(result.value) - 1) :
               AtLeast(result.value[i].Risk_Score,
                       result.value[i + 1].Risk_Score[1],
                       result.value[i + 1].Risk_Score[2])

C4_Witness ==
    /\ Returned("score_all_taxpayers")
    /\ Len(result.value) = 2
    /\ result.value[1].Taxpayer_ID = 2
    /\ Above(result.value[1].Risk_Score,
             result.value[2].Risk_Score[1], result.value[2].Risk_Score[2])

\* C5: in every result of detect_anomaly and every row of
\* detect_all_anomalies, Is_Anomalous is true iff the returned Anomaly_Score
\* is > 0.5.
C5_FlagIffReturnedScoreAboveHalf ==
    /\ ReturnedSome("detect_anomaly")
          => (result.value[1].Is_Anomalous <=> Above(result.value[1].Anomaly_Score, 1, 2))
    /\ Returned("detect_all_anomalies")
          => \A i \in 1..Len(result.value) :
               result.value[i].Is_Anomalous <=> Above(result.value[i].Anomaly_Score, 1, 2)

\* train() assigns feature_names last, so it is None until a train completed
AnomalyOps == {"detect_anomaly", "detect_all_anomalies", "get_anomaly_explanation"}
RiskOps == {"score_taxpayer", "score_all_taxpayers", "get_risk_explanation",
            "get_feature_importance"}

\* C6: an inference operation called on a scorer whose train() has not
\* completed raises; it returns no normal value.
C6_UntrainedInferenceRaises ==
    /\ (result.op \in AnomalyOps /\ ad_feature_names = None) => result.status = "raise"
    /\ (result.op \in RiskOps /\ rs_feature_names = None) => result.status = "raise"

AuditIndexes(id) ==
    { j \in 1..Len(audit_data[1]) : audit_data[1][j].Taxpayer_ID = id }

\* C7: RiskScorer.train gives every taxpayer with a Feature Vector exactly
\* one training label, 1 iff one of its audit records has finding
\* 'Non-Compliant' and 0 otherwise.
C7_LabelIsAnyNonCompliant ==
    rs_training # None =>
        /\ \A id \in QueryIds :
             Cardinality({ i \in 1..Len(rs_training[1]) :
                             rs_training[1][i].Taxpayer_ID = id })
               = IF HasFeatureVector(id) THEN 1 ELSE 0
        /\ \A i \in 1..Len(rs_training[1]) :
             rs_training[1][i].Is_Non_Compliant =
               IF \E j \in AuditIndexes(rs_training[1][i].Taxpayer_ID) :
                     audit_data[1][j].Audit_Finding = "Non-Compliant"
               THEN 1 ELSE 0

C7_Witness ==
    /\ rs_training # None
    /\ \E i \in 1..Len(rs_training[1]) :
         /\ rs_training[1][i].Is_Non_Compliant = 1
         /\ \E j \in AuditIndexes(rs_training[1][i].Taxpayer_ID) :
              audit_data[1][j].Audit_Finding = "Compliant"
    /\ \E i \in 1..Len(rs_training[1]) :
         /\ rs_training[1][i].Is_Non_Compliant = 0
         /\ AuditIndexes(rs_training[1][i].Taxpayer_ID) = {}

Max(S) == CHOOSE x \in S : \A y \in S : y <= x
LastReturn(id) == returns_data[1][Max(ReturnIndexes(id))]
PrevReturn(id) == returns_data[1][Max(ReturnIndexes(id) \ {Max(ReturnIndexes(id))})]

\* C8: Revenue_Growth is 0 for a taxpayer with exactly one return or whose
\* second-to-last stored return has Gross_Revenue <= 0; otherwise it is
\* (latest - previous) / previous over the last two returns in stored order.
C8_RevenueGrowth ==
    ReturnedSome("get_taxpayer_features") =>
        LET id == result.arg[1]
            growth == result.value[1].Revenue_Growth
        IN IF Cardinality(ReturnIndexes(id)) = 1
           THEN growth = Zero
           ELSE LET latest == LastReturn(id).Gross_Revenue[1]
                    previous == PrevReturn(id).Gross_Revenue[1]
                IN IF previous <= 0 THEN growth = Zero
                   ELSE growth[2] > 0 /\ growth[1] * previous = (latest - previous) * growth[2]

C8_Witness ==
    /\ ReturnedSome("get_taxpayer_features")
    /\ Cardinality(ReturnIndexes(result.arg[1])) = 3
    /\ LastReturn(result.arg[1]).Tax_Period < PrevReturn(result.arg[1]).Tax_Period
    /\ returns_data[1][1].Taxpayer_ID = result.arg[1]
    /\ returns_data[1][1].Gross_Revenue # PrevReturn(result.arg[1]).Gross_Revenue
    /\ returns_data[1][1].Gross_Revenue[1] > 0
    /\ result.value[1].Revenue_Growth # Zero

\* the returns of the taxpayers the master table gives this industry code
IndustryIndexes(code) ==
    { j \in 1..Len(returns_data[1]) :
        \E i \in 1..Len(master_data[1]) :
           /\ master_data[1][i].Industry_Code = code
           /\ master_data[1][i].Taxpayer_ID = returns_data[1][j].Taxpayer_ID }
RECURSIVE Total(_, _)
Total(indexes, col) ==
    IF indexes = {} THEN 0
    ELSE returns_data[1][Max(indexes)][col][1] + Total(indexes \ {Max(indexes)}, col)
IsRatioOfTotals(q, code) ==
    /\ q[2] > 0
    /\ q[1] * Total(IndustryIndexes(code), "Gross_Revenue")
         = Total(IndustryIndexes(code), "Input_Tax_Claim") * q[2]

\* C9 as stated: get_industry_benchmark returns 0.1 for a code with no
\* associated returns or whose aggregate Gross_Revenue is zero; otherwise
\* aggregate Input_Tax_Claim / aggregate Gross_Revenue.
C9_DefaultOnlyWhenZero ==
    Returned("get_industry_benchmark") =>
        IF \/ IndustryIndexes(result.arg[1]) = {}
           \/ Total(IndustryIndexes(result.arg[1]), "Gross_Revenue") = 0
        THEN result.value = <<1, 10>>
        ELSE IsRatioOfTotals(result.value, result.arg[1])

\* C9 amended: get_industry_benchmark returns 0.1 for a code with no
\* associated returns or whose aggregate Gross_Revenue is zero or negative;
\* otherwise aggregate Input_Tax_Claim / aggregate Gross_Revenue.
C9_DefaultWhenNotPositive ==
    Returned("get_industry_benchmark") =>
        IF \/ IndustryIndexes(result.arg[1]) = {}
           \/ Total(IndustryIndexes(result.arg[1]), "Gross_Revenue") <= 0
        THEN result.value = <<1, 10>>
        ELSE IsRatioOfTotals(result.value, result.arg[1])

C9_Witness ==
    /\ Returned("get_industry_benchmark")
    /\ Cardinality(IndustryIndexes(result.arg[1])) = 3
    /\ Total(IndustryIndexes(result.arg[1]), "Gross_Revenue") < 0
    /\ result.value = <<1, 10>>

\* the message kinds in an explanation text
Emits(text, first, last) ==
    \E i \in 1..Len(text) : Len(text[i]) = 3 /\ text[i][1] = first /\ text[i][3] = last
EmitsHigher(text) == Emits(text, "Input tax claim is", "% higher than industry benchmark")
EmitsLower(text) == Emits(text, "Input tax claim is", "% lower than industry benchmark")
EmitsGrowth(text) == Emits(text, "Revenue grew by", "% (unusually high)")
EmitsDecline(text) == Emits(text, "Revenue declined by", "%")

\* latest Input_Tax_Claim / Gross_Revenue of a taxpayer with positive latest
\* revenue, as numerator and denominator
LatestClaim(id) == LastReturn(id).Input_Tax_Claim[1]
LatestRevenue(id) == LastReturn(id).Gross_Revenue[1]
\* Revenue_Growth > n/d and < n/d from the two last stored revenues
GrowthAbove(id, n, d) ==
    /\ Cardinality(ReturnIndexes(id)) > 1
    /\ (LatestRevenue(id) - PrevReturn(id).Gross_Revenue[1]) * d
          > n * PrevReturn(id).Gross_Revenue[1]
GrowthBelow(id, n, d) ==
    /\ Cardinality(ReturnIndexes(id)) > 1
    /\ (LatestRevenue(id) - PrevReturn(id).Gross_Revenue[1]) * d
          < n * PrevReturn(id).Gross_Revenue[1]

\* C10: the explanation text has the 'unusually high' message iff
\* Revenue_Growth > 0.5, the decline message iff Revenue_Growth < -0.3, the
\* 'higher than benchmark' message iff ratio_deviation > 1 and the 'lower'
\* message iff ratio_deviation < -0.5, each rule on its own; it is 'No
\* significant anomalies detected' when no message is emitted.  For revenues
\* [100, 150], claims [10, 10] and benchmark 0.05 no message is emitted; for
\* revenues [100, 151] the 'unusually high' message is.
C10_ExplanationRules ==
    Returned("_generate_explanation") =>
        LET id == result.arg[1]
            b == result.arg[2]
            text == result.value
            \* ratio_deviation = (c/r - b)/b compared with k/2: for b > 0,
            \* r > 0 that is 2(c b2 - r b1) against k r b1
            dev2 == 2 * (LatestClaim(id) * b[2] - LatestRevenue(id) * b[1])
            unit == LatestRevenue(id) * b[1]
        IN /\ EmitsGrowth(text) <=> GrowthAbove(id, 1, 2)
           /\ EmitsDecline(text) <=> GrowthBelow(id, -3, 10)
           /\ EmitsHigher(text) <=> (b[1] > 0 /\ dev2 > 2 * unit)
           /\ EmitsLower(text) <=> (b[1] > 0 /\ dev2 < -unit)
           /\ (text = NoAnomalies) <=>
                 ~(EmitsGrowth(text) \/ EmitsDecline(text)
                   \/ EmitsHigher(text) \/ EmitsLower(text))
           /\ (/\ Cardinality(ReturnIndexes(id)) = 2
               /\ PrevReturn(id).Gross_Revenue = N(100) /\ LatestClaim(id) = 10
               /\ b = <<1, 20>>)
                 => /\ LatestRevenue(id) = 150 => text = NoAnomalies
                    /\ LatestRevenue(id) = 151
                          => text = << <<"Revenue grew by", N(51), "% (unusually high)">> >>

C10_Witness ==
    /\ Returned("_generate_explanation")
    /\ result.arg = <<1, <<1, 20>>>>
    /\ returns_data[1] = <<ReturnRow(1, 1, N(100), N(10)), ReturnRow(1, 1, N(150), N(10))>>
    /\ result.value = NoAnomalies

\* ---------------------------------------------------------------------------
LookupOps == {"get_taxpayer_features", "detect_anomaly", "get_anomaly_explanation",
              "score_taxpayer", "get_risk_explanation"}
AggregateOps == {"get_all_taxpayer_features", "detect_all_anomalies",
                 "score_all_taxpayers"}
CodeInMaster(code) ==
    \E i \in 1..Len(master_data[1]) : master_data[1][i].Industry_Code = code
\* the failures of a model that was never fitted
NotFitted == {"NotFittedError", "AttributeError"}

\* C11: on a loaded Data Store a lookup of a taxpayer id that is not in the
\* master table returns null, the benchmark of an industry code that is not in
\* the master table is the default, and an aggregate operation returns a
\* collection with one row per taxpayer that has a feature vector: it never
\* fails for any reason other than a model that was not fitted.
C11_UnknownLookupsNeverRaise ==
    Loaded =>
        /\ (result.op \in LookupOps /\ ~InMaster(result.arg[1]))
              => (result.status = "return" /\ result.value = None)
        /\ (result.op = "get_industry_benchmark" /\ ~CodeInMaster(result.arg[1]))
              => (result.status = "return" /\ result.value = DefaultBenchmark)
        /\ result.op \in AggregateOps
              => \/ /\ result.status = "return"
                    /\ Len(result.value)
                          = Cardinality({ i \in 1..Len(master_data[1]) :
                               HasFeatureVector(master_data[1][i].Taxpayer_ID) })
                 \/ result.status = "raise" /\ result.value \in NotFitted

\* ---------------------------------------------------------------------------
RouteOps == {"score_all_taxpayers", "detect_all_anomalies", "score_taxpayer",
             "taxpayer_detail"}
Fitted == <<ad_model, ad_scaler, ad_feature_names, rs_model, rs_scaler, rs_feature_names>>

StartupOrder ==
    /\ app.pc \in {"loaded", "ad_trained", "serving"} => Loaded
    /\ app.pc \in {"ad_trained", "serving"} => ad_feature_names # None
    /\ app.pc = "serving" => (RsFitted /\ rs_feature_names # None)
    /\ app.rs_trains > 0 => (ad_feature_names # None /\ app.ad_trains = 1)
    /\ app.ad_trains > 0 => Loaded
    /\ app.pc \in {"ad_trained", "serving"} => app.ad_trains = 1
    /\ app.pc = "serving" => app.rs_trains = 1
    /\ app.ad_trains <= 1 /\ app.rs_trains <= 1
    /\ result.op \in RouteOps => app.pc = "serving"

\* C12: in the application the Data Store is loaded before AnomalyDetector.train
\* runs, RiskScorer.train runs only after AnomalyDetector.train has completed,
\* each train has run exactly once and both have completed when the first route
\* handler calls an inference operation, and while requests are served no train
\* runs and the store and the fitted state stay as start-up left them.
C12_StartupOrdering ==
    /\ []StartupOrder
    /\ [][app.pc = "serving" => UNCHANGED <<app, store, Fitted, rs_training>>]_vars

C12_Witness ==
    /\ app.pc = "serving"
    /\ ReturnedSome("score_all_taxpayers")
    /\ app.ad_trains = 1 /\ app.rs_trains = 1

\* ---------------------------------------------------------------------------
InferenceOps == LookupOps \cup AggregateOps
                  \cup {"get_industry_benchmark", "get_feature_importance"}
ModifyingOps == {"load_data", "ad_train", "rs_train"}

\* C13: a step of any of the ten inference operations leaves the three Data
\* Store tables and both scorers' scaler, model and feature_names unchanged;
\* a step that changes any of them is a load_data or a train.
C13_InferenceFrame ==
    [][/\ result'.op \in InferenceOps => UNCHANGED <<store, Fitted>>
       /\ <<store, Fitted>>' # <<store, Fitted>> => result'.op \in ModifyingOps]_vars

C13_Witness ==
    /\ ReturnedSome("detect_anomaly")
    /\ ad_feature_names # None /\ rs_feature_names # None
    /\ HasFeatureVector(result.arg[1])

\* ---------------------------------------------------------------------------
DeterministicOps == {"get_taxpayer_features", "detect_anomaly", "score_taxpayer"}
SameCallAsPinned ==
    /\ pinned # None
    /\ result.op \in DeterministicOps
    /\ result.op = pinned[1].op /\ result.arg = pinned[1].arg
SameResultAsPinned ==
    result.status = pinned[1].status /\ result.value = pinned[1].value

\* C14 as stated: with the store loaded and both scorers trained once, a call of
\* get_taxpayer_features, detect_anomaly or score_taxpayer returns what any
\* earlier call with the same taxpayer id returned, whenever the two were made.
C14_SameResultWhenever ==
    SameCallAsPinned => SameResultAsPinned

\* C14 amended: with the store loaded and both scorers trained once, a call of
\* get_taxpayer_features, detect_anomaly or score_taxpayer returns what any
\* earlier call with the same taxpayer id made on the same day returned,
\* whichever other queries ran in between.
C14_SameResultSameDay ==
    (SameCallAsPinned /\ pinned[1].day = now) => SameResultAsPinned

C14_Witness ==
    /\ SameCallAsPinned
    /\ pinned[1].later
    /\ pinned[1].day = now /\ now > Today
    /\ result.op = "score_taxpayer" /\ result.status = "return" /\ result.value # None

====
